---- MODULE Spec2Model ----
(***************************************************************************)
(* Model of the Ruban monitor (src/main.py, src/betamain.py): the calendar *)
(* resolver, the schedule window builder, the delay estimator and the feed *)
(* reconciler, each as the operation the Python code performs on the       *)
(* loaded GTFS tables, and the per-route delay history with the anomaly    *)
(* rules of betamain.py that read it.                                      *)
(*                                                                         *)
(* Text cells of the GTFS archive are sequences of one-character strings,  *)
(* an empty cell (pandas NaN) is the empty sequence.  Instants are integer *)
(* milliseconds counted from midnight of day 0 (2024-06-30, a Sunday).     *)
(***************************************************************************)
EXTENDS Integers, Sequences, FiniteSets, TLC

VARIABLES archive, gtfs_data, history, call, ret

vars == <<archive, gtfs_data, history, call, ret>>

(***************************************************************************)
(* Bounds of the model.                                                    *)
(***************************************************************************)
NumDays == 3
MaxCalendarRows == 2
MaxExceptionRows == 2
MaxFeed == 4
MaxHistory == 3

(***************************************************************************)
(* Text, numbers and time units.                                           *)
(***************************************************************************)
DigitChars == <<"0", "1", "2", "3", "4", "5", "6", "7", "8", "9">>

IsDigit(c) == \E i \in 1..Len(DigitChars) : DigitChars[i] = c

DigitValue(c) == (CHOOSE i \in 1..Len(DigitChars) : DigitChars[i] = c) - 1

RECURSIVE Digits(_)
\* str(n) for a natural number n.
Digits(n) ==
    IF n < 10 THEN <<DigitChars[n + 1]>>
    ELSE Append(Digits(n \div 10), DigitChars[(n % 10) + 1])

RECURSIVE DecimalValue(_)
\* int(text) for a non-empty text of digits.
DecimalValue(text) ==
    IF Len(text) = 0 THEN 0
    ELSE 10 * DecimalValue(SubSeq(text, 1, Len(text) - 1)) + DigitValue(text[Len(text)])

IsNumeral(text) == Len(text) > 0 /\ \A i \in 1..Len(text) : IsDigit(text[i])

\* The characters of the archive's cells in code-point order.
Alphabet == <<" ", "0", "1", "2", "3", "4", "5", "6", "7", "8", "9", ":", "x">>

CharRank(c) == CHOOSE i \in 1..Len(Alphabet) : Alphabet[i] = c

RECURSIVE TextLess(_, _)
\* a < b for two Python strings.
TextLess(a, b) ==
    IF Len(b) = 0 THEN FALSE
    ELSE IF Len(a) = 0 THEN TRUE
    ELSE IF a[1] # b[1] THEN CharRank(a[1]) < CharRank(b[1])
    ELSE TextLess(Tail(a), Tail(b))

TextMin(S) == CHOOSE a \in S : \A b \in S : ~TextLess(b, a)

TextMax(S) == CHOOSE a \in S : \A b \in S : ~TextLess(a, b)

RECURSIVE Strip(_)
\* text.strip()
Strip(text) ==
    IF Len(text) = 0 THEN text
    ELSE IF text[1] = " " THEN Strip(Tail(text))
    ELSE IF text[Len(text)] = " " THEN Strip(SubSeq(text, 1, Len(text) - 1))
    ELSE text

RECURSIVE Split(_, _)
\* text.split(sep)
Split(text, sep) ==
    IF \A i \in 1..Len(text) : text[i] # sep THEN <<text>>
    ELSE LET k == CHOOSE i \in 1..Len(text) :
                    text[i] = sep /\ \A j \in 1..(i - 1) : text[j] # sep
         IN  <<SubSeq(text, 1, k - 1)>> \o Split(SubSeq(text, k + 1, Len(text)), sep)

\* int(text) succeeds.
IsInt(text) == IsNumeral(Strip(text))

NaN == <<>>

IsNa(text) == text = NaN

BadText == <<"x">>

SecondMs == 1000
MinuteMs == 60 * SecondMs
HourMs == 60 * MinuteMs
DayMs == 24 * HourMs

Days == 0..(NumDays - 1)

\* The thresholds of the overnight correction, the grace period after a
\* trip's end and the horizon of the day-rollover correction.
OvernightStartHour == 5
EveningHour == 18
GraceMinutes == 15
RolloverHours == 3

\* datetime.combine(now.date(), datetime.min.time())
Midnight(now) == (now \div DayMs) * DayMs

DateOf(now) == now \div DayMs

\* dt.time().hour
HourOf(dt) == (dt % DayMs) \div HourMs

\* today_date.strftime('%Y%m%d') as an integer, for the days of the model.
Ymd(d) == IF d <= 0 THEN 20240630 + d ELSE 20240700 + d

WeekdayNames ==
    <<"monday", "tuesday", "wednesday", "thursday", "friday", "saturday", "sunday">>

Weekdays == {WeekdayNames[i] : i \in 1..Len(WeekdayNames)}

\* today_date.strftime('%A').lower(): day 0 is a Sunday.
Weekday(d) == WeekdayNames[((d + 6) % 7) + 1]

(***************************************************************************)
(* load_gtfs_data: the date columns go through pd.to_numeric(errors=       *)
(* 'coerce').fillna(0).astype(int).                                        *)
(***************************************************************************)
CoerceDate(text) == IF IsNumeral(text) THEN DecimalValue(text) ELSE 0

LoadCalendar(rows) ==
    {[service_id |-> r.service_id,
      start_date |-> CoerceDate(r.start_date),
      end_date |-> CoerceDate(r.end_date),
      flags |-> r.flags] : r \in rows}

LoadCalendarDates(rows) ==
    {[service_id |-> r.service_id,
      date |-> CoerceDate(r.date),
      exception_type |-> r.exception_type] : r \in rows}

LoadGtfsData(zip) ==
    [calendar |-> LoadCalendar(zip.calendar),
     calendar_dates |-> LoadCalendarDates(zip.calendar_dates),
     trips |-> zip.trips,
     stop_times |-> zip.stop_times,
     stops |-> zip.stops]

\* What an operation gives back: a value, or an exception.
Returned(v) == [raised |-> FALSE, value |-> v]

Raised == [raised |-> TRUE, value |-> {}]

(***************************************************************************)
(* get_active_service_ids                                                  *)
(***************************************************************************)
\* The row mask of the weekly pattern.
CalendarMask(c, d) ==
    /\ c.start_date <= Ymd(d)
    /\ c.end_date >= Ymd(d)
    /\ c.flags[Weekday(d)] = 1

WeeklyActive(data, d) == {c.service_id : c \in {x \in data.calendar : CalendarMask(x, d)}}

ExceptionsOn(data, d) == {e \in data.calendar_dates : e.date = Ymd(d)}

Added(data, d) == {e.service_id : e \in {x \in ExceptionsOn(data, d) : x.exception_type = 1}}

Removed(data, d) == {e.service_id : e \in {x \in ExceptionsOn(data, d) : x.exception_type = 2}}

\* Variant of ApplyExceptions that subtracts the removed services last.
ApplyExceptionsRemoveLast(active, removed, added) == (active \cup added) \ removed

ApplyExceptions(active, removed, added) == (active \ removed) \cup added

\* Variant of ActiveServiceIds whose date range excludes end_date itself.
ActiveServiceIdsExclusiveEnd(data, d) ==
    LET weekly == {c.service_id : c \in
            {x \in data.calendar :
                /\ x.start_date <= Ymd(d)
                /\ x.end_date > Ymd(d)
                /\ x.flags[Weekday(d)] = 1}}
    IN  IF data.calendar_dates # {}
        THEN ApplyExceptions(weekly, Removed(data, d), Added(data, d))
        ELSE weekly

ActiveServiceIds(data, d) ==
    IF data.calendar_dates # {}
    THEN ApplyExceptions(WeeklyActive(data, d), Removed(data, d), Added(data, d))
    ELSE WeeklyActive(data, d)

(***************************************************************************)
(* parse_gtfs_time: None for a missing cell, ValueError for a text that is *)
(* not three integers separated by colons, else base + the offset.         *)
(***************************************************************************)
ParsedNone == [tag |-> "none", dt |-> 0]

ParsedError == [tag |-> "error", dt |-> 0]

ParseGtfsTime(text, base) ==
    IF IsNa(text) THEN ParsedNone
    ELSE LET parts == Split(Strip(text), ":")
         IN  IF Len(parts) # 3 \/ \E i \in 1..Len(parts) : ~IsInt(parts[i])
             THEN ParsedError
             ELSE [tag |-> "ok",
                   dt |-> base + DecimalValue(Strip(parts[1])) * HourMs
                               + DecimalValue(Strip(parts[2])) * MinuteMs
                               + DecimalValue(Strip(parts[3])) * SecondMs]

(***************************************************************************)
(* get_scheduled_trips_now                                                 *)
(***************************************************************************)
ActiveTrips(data, services) ==
    {t.trip_id : t \in {x \in data.trips : x.service_id \in services}}

Present(texts) == {x \in texts : ~IsNa(x)}

\* stop_times.groupby('trip_id').agg(start=('departure_time', 'min'),
\* end=('arrival_time', 'max')): the minimum and the maximum of the texts,
\* missing cells skipped, a missing cell when the group has no text.
Bounds(data) ==
    {LET rows == {r \in data.stop_times : r.trip_id = id}
         deps == Present({r.departure_time : r \in rows})
         arrs == Present({r.arrival_time : r \in rows})
     IN  [trip_id |-> id,
          start |-> IF deps = {} THEN NaN ELSE TextMin(deps),
          end |-> IF arrs = {} THEN NaN ELSE TextMax(arrs)]
     : id \in {r.trip_id : r \in data.stop_times}}

\* Variant of Overnight with the start threshold included.
OvernightInclusive(start_dt, now) ==
    HourOf(start_dt) <= OvernightStartHour /\ HourOf(now) >= EveningHour

\* The condition of the overnight correction.
Overnight(start_dt, now) ==
    HourOf(start_dt) < OvernightStartHour /\ HourOf(now) >= EveningHour

\* start_dt and end_dt of a bounds row as compared with now.
Window(row, now) ==
    LET start_dt == ParseGtfsTime(row.start, Midnight(now)).dt
        end_dt == ParseGtfsTime(row.end, Midnight(now)).dt
        shift == IF Overnight(start_dt, now) THEN DayMs ELSE 0
    IN  [start_dt |-> start_dt - shift, end_dt |-> end_dt - shift]

\* Variant of InWindow with the upper bound excluded.
InWindowExclusive(w, now) == w.start_dt <= now /\ now < w.end_dt + GraceMinutes * MinuteMs

\* Variant of InWindow that accepts either bound alone.
InWindowEither(w, now) == w.start_dt <= now \/ now <= w.end_dt + GraceMinutes * MinuteMs

InWindow(w, now) == w.start_dt <= now /\ now <= w.end_dt + GraceMinutes * MinuteMs

\* One pass of the loop over the bounds rows: "raise" when a step of the
\* body raises, else whether the trip is added to the scheduled set.
RowOutcome(row, now) ==
    LET start == ParseGtfsTime(row.start, Midnight(now))
        end == ParseGtfsTime(row.end, Midnight(now))
    IN  IF start.tag = "error" \/ end.tag = "error" THEN "raise"
        ELSE IF start.tag = "none" THEN "raise"
        ELSE IF end.tag = "none"
             THEN IF Overnight(start.dt, now) \/ start.dt <= now THEN "raise" ELSE "out"
        ELSE IF InWindow(Window(row, now), now) THEN "in" ELSE "out"

ScheduledTripsNow(data, now) ==
    LET services == ActiveServiceIds(data, DateOf(now))
        rows == {b \in Bounds(data) : b.trip_id \in ActiveTrips(data, services)}
    IN  IF services = {} THEN Returned({})
        ELSE IF \E b \in rows : RowOutcome(b, now) = "raise" THEN Raised
        ELSE Returned({b.trip_id : b \in {x \in rows : RowOutcome(x, now) = "in"}})

(***************************************************************************)
(* estimate_delay_from_position                                            *)
(***************************************************************************)
\* The stop-time rows of (trip_id, stop_sequence); row.iloc[0] is the row
\* when there is one.
StopTimeRows(data, trip_id, seq) ==
    {r \in data.stop_times : r.trip_id = trip_id /\ r.stop_sequence = seq}

FirstRow(rows) == CHOOSE r \in rows : TRUE

\* Variant of ScheduledStr that always reads the departure time.
ScheduledStrDeparture(row) == row.departure_time

ScheduledStr(row) ==
    IF ~IsNa(row.arrival_time) THEN row.arrival_time ELSE row.departure_time

\* The scheduled instant after the day-rollover correction.
Rollover(scheduled_dt, now) ==
    IF scheduled_dt > now + RolloverHours * HourMs THEN scheduled_dt - DayMs ELSE scheduled_dt

\* Variant of WholeSeconds that rounds down.
WholeSecondsFloor(ms) == ms \div SecondMs

\* int(delta.total_seconds()): the fraction of a second is cut off.
WholeSeconds(ms) == IF ms >= 0 THEN ms \div SecondMs ELSE 0 - ((0 - ms) \div SecondMs)

EstimateDelay(data, trip_id, seq, position_time, now) ==
    LET rows == StopTimeRows(data, trip_id, seq)
        parsed == ParseGtfsTime(ScheduledStr(FirstRow(rows)), Midnight(now))
    IN  IF rows = {} THEN Returned(0)
        ELSE IF parsed.tag # "ok" THEN Raised
        ELSE Returned(WholeSeconds(position_time - Rollover(parsed.dt, now)))

(***************************************************************************)
(* get_next_stop.  A current stop sequence is [has, value]: has is FALSE   *)
(* for None.                                                               *)
(***************************************************************************)
NoSeq == [has |-> FALSE, value |-> 0]

SomeSeq(n) == [has |-> TRUE, value |-> n]

MaxOf(S) == CHOOSE x \in S : \A y \in S : y <= x

\* Variant of NextStop that reports the terminus whenever no entry follows.
NextStopTerminusOnGap(data, trip_id, seq) ==
    LET trip_stops == {r \in data.stop_times : r.trip_id = trip_id}
        next_row == {r \in trip_stops : r.stop_sequence = seq.value + 1}
        name_row == {x \in data.stops : \E r \in next_row : x.stop_id = r.stop_id}
    IN  IF trip_stops = {} \/ ~seq.has THEN "Inconnu"
        ELSE IF next_row # {} /\ name_row # {}
             THEN (CHOOSE x \in name_row : TRUE).stop_name
        ELSE "Terminus atteint"

NextStop(data, trip_id, seq) ==
    LET trip_stops == {r \in data.stop_times : r.trip_id = trip_id}
        next_row == {r \in trip_stops : r.stop_sequence = seq.value + 1}
        name_row == {x \in data.stops : \E r \in next_row : x.stop_id = r.stop_id}
    IN  IF trip_stops = {} \/ ~seq.has THEN "Inconnu"
        ELSE IF next_row # {} /\ name_row # {}
             THEN (CHOOSE x \in name_row : TRUE).stop_name
        ELSE IF seq.value = MaxOf({r.stop_sequence : r \in trip_stops})
             THEN "Terminus atteint"
        ELSE "Prochain arrêt inconnu"

(***************************************************************************)
(* analyze_realtime_feed.  An entity of the decoded feed carries, for each *)
(* optional field, whether it is set (HasField) and its value; reading a   *)
(* field that is not set gives the protobuf default.                       *)
(***************************************************************************)
StatusMap(code) ==
    CASE code = 0 -> "APPROCHE"
      [] code = 1 -> "À L'ARRÊT"
      [] code = 2 -> "EN ROUTE VERS"
      [] OTHER -> "INCONNU"

OccupancyMap(has, code) ==
    CASE has /\ code = 0 -> "VIDE"
      [] has /\ code = 1 -> "PEU DE PLACES LIBRES"
      [] has /\ code = 2 -> "PEU DE PLACES ASSISES"
      [] has /\ code = 3 -> "BON NOMBRE DE PLACES"
      [] has /\ code = 4 -> "PRESQUE PLEIN"
      [] has /\ code = 5 -> "PLEIN DÉBOUT"
      [] has /\ code = 6 -> "COMPLET"
      [] OTHER -> "Non renseigné"

\* v.vehicle.id, read without a presence check.
VehicleIdOf(e) == IF e.has_id THEN e.id ELSE ""

LabelOf(e) == IF e.has_label THEN e.label ELSE VehicleIdOf(e)

RouteIdOf(e) == IF e.has_route_id THEN e.route_id ELSE "?"

\* datetime.fromtimestamp(v.timestamp), or now.
PositionTimeOf(e, now) == IF e.has_timestamp THEN e.timestamp * SecondMs ELSE now

SeqOf(e) == IF e.has_seq THEN SomeSeq(e.seq) ELSE NoSeq

\* The entities the loop passes over.
Skipped(e) == ~e.has_vehicle \/ ~e.has_trip_id

DelayOf(e, now, data) ==
    IF e.has_seq
    THEN EstimateDelay(data, e.trip_id, e.seq, PositionTimeOf(e, now), now)
    ELSE Returned(0)

VehicleRecord(e, now, data) ==
    [label |-> LabelOf(e),
     route_id |-> RouteIdOf(e),
     trip_id |-> e.trip_id,
     status |-> StatusMap(e.current_status),
     timestamp |-> PositionTimeOf(e, now),
     delay_seconds |-> DelayOf(e, now, data).value,
     occupancy |-> OccupancyMap(e.has_occupancy, e.occupancy),
     next_stop |-> NextStop(data, e.trip_id, SeqOf(e))]

\* Variant of EmptyAnalysis in which the locals outlive the call: a call
\* that follows another starts from what the previous one returned.
LeftoverAnalysis ==
    IF call.op = "analyze_realtime_feed" /\ ~ret.raised
    THEN [vehicles |-> ret.value.vehicles,
          observed_trips |-> ret.value.observed_trips,
          vehicle_to_trips |-> ret.value.duplicates,
          raised |-> FALSE]
    ELSE [vehicles |-> [id \in {} |-> 0],
          observed_trips |-> {},
          vehicle_to_trips |-> [label \in {} |-> {}],
          raised |-> FALSE]

\* The locals of analyze_realtime_feed before the loop.
EmptyAnalysis ==
    [vehicles |-> [id \in {} |-> 0],
     observed_trips |-> {},
     vehicle_to_trips |-> [label \in {} |-> {}],
     raised |-> FALSE]

\* Variant of AnalyzeEntity whose observed trips are those of the last
\* entity alone.
AnalyzeEntityLastObserved(acc, e, now, data) ==
    IF acc.raised \/ Skipped(e) THEN acc
    ELSE IF DelayOf(e, now, data).raised THEN [acc EXCEPT !.raised = TRUE]
    ELSE [vehicles |->
              [id \in DOMAIN acc.vehicles \cup {VehicleIdOf(e)} |->
                  IF id = VehicleIdOf(e) THEN VehicleRecord(e, now, data)
                  ELSE acc.vehicles[id]],
          observed_trips |-> {e.trip_id},
          vehicle_to_trips |->
              [label \in DOMAIN acc.vehicle_to_trips \cup {LabelOf(e)} |->
                  IF label = LabelOf(e)
                  THEN (IF label \in DOMAIN acc.vehicle_to_trips
                        THEN acc.vehicle_to_trips[label] ELSE {}) \cup {e.trip_id}
                  ELSE acc.vehicle_to_trips[label]],
          raised |-> FALSE]

\* One pass of the loop body.
AnalyzeEntity(acc, e, now, data) ==
    IF acc.raised \/ Skipped(e) THEN acc
    ELSE IF DelayOf(e, now, data).raised THEN [acc EXCEPT !.raised = TRUE]
    ELSE [vehicles |->
              [id \in DOMAIN acc.vehicles \cup {VehicleIdOf(e)} |->
                  IF id = VehicleIdOf(e) THEN VehicleRecord(e, now, data)
                  ELSE acc.vehicles[id]],
          observed_trips |-> acc.observed_trips \cup {e.trip_id},
          vehicle_to_trips |->
              [label \in DOMAIN acc.vehicle_to_trips \cup {LabelOf(e)} |->
                  IF label = LabelOf(e)
                  THEN (IF label \in DOMAIN acc.vehicle_to_trips
                        THEN acc.vehicle_to_trips[label] ELSE {}) \cup {e.trip_id}
                  ELSE acc.vehicle_to_trips[label]],
          raised |-> FALSE]

RECURSIVE AnalyzeLoop(_, _, _, _)
\* The locals after the loop has passed over the first n entities.
AnalyzeLoop(feed, n, now, data) ==
    IF n = 0 THEN EmptyAnalysis
    ELSE LET acc == AnalyzeLoop(feed, n - 1, now, data)
         IN  AnalyzeEntity(acc, feed[n], now, data)

\* Variant of Duplicates that keeps every label.
DuplicatesEveryLabel(vehicle_to_trips) ==
    [label \in DOMAIN vehicle_to_trips |-> vehicle_to_trips[label]]

Duplicates(vehicle_to_trips) ==
    [label \in {l \in DOMAIN vehicle_to_trips : Cardinality(vehicle_to_trips[l]) > 1} |->
        vehicle_to_trips[label]]

AnalyzeFeed(feed, now, data) ==
    LET acc == AnalyzeLoop(feed, Len(feed), now, data)
    IN  IF acc.raised THEN Raised
        ELSE Returned([vehicles |-> acc.vehicles,
                       observed_trips |-> acc.observed_trips,
                       duplicates |-> Duplicates(acc.vehicle_to_trips)])

(***************************************************************************)
(* Delays in minutes and their means are Python floats; they are kept here *)
(* as exact fractions [num, den] in lowest terms with den > 0.             *)
(***************************************************************************)
\* Two decimal digits, as '%02d' and strftime write them.
Pad2(n) == IF n < 10 THEN <<"0">> \o Digits(n) ELSE Digits(n)

Abs(n) == IF n < 0 THEN -n ELSE n

RECURSIVE Gcd(_, _)
Gcd(a, b) == IF b = 0 THEN a ELSE Gcd(b, a % b)

Fraction(n, d) ==
    LET g == Gcd(Abs(n), Abs(d))
        s == IF d < 0 THEN -1 ELSE 1
    IN  [num |-> (s * n) \div g, den |-> (s * d) \div g]

FracAdd(a, b) == Fraction(a.num * b.den + b.num * a.den, a.den * b.den)

FracDiv(a, k) == Fraction(a.num, a.den * k)

FracTimes(k, a) == Fraction(k * a.num, a.den)

FracAbs(a) == [num |-> Abs(a.num), den |-> a.den]

FracLess(a, b) == a.num * b.den < b.num * a.den

Whole(n) == Fraction(n, 1)

RECURSIVE FracSum(_)
\* sum(...) over a sequence of fractions.
FracSum(values) ==
    IF values = <<>> THEN Whole(0)
    ELSE FracAdd(FracSum(SubSeq(values, 1, Len(values) - 1)), values[Len(values)])

\* sum(values) / len(values), for a sequence that is not empty.
Mean(values) == FracDiv(FracSum(values), Len(values))

RECURSIVE InOrder(_)
\* The elements of a finite set of vehicle ids, one after the other.
InOrder(ids) ==
    IF ids = {} THEN <<>>
    ELSE LET id == CHOOSE x \in ids : TRUE
         IN  Append(InOrder(ids \ {id}), id)

(***************************************************************************)
(* History: route id -> sequence of samples (time label, average).         *)
(***************************************************************************)
\* load_history when no history file exists.
LoadHistory == [route_id \in {} |-> <<>>]

\* now.strftime('%H:%M')
TimeLabel(now) ==
    Pad2((now % DayMs) \div HourMs) \o <<":">> \o Pad2((now % HourMs) \div MinuteMs)

\* The routes of the vehicle records.
RoutesOf(vehicles) == {vehicles[id].route_id : id \in DOMAIN vehicles}

\* betamain.py: line_delays[route_id] of compute_line_stats.
LineDelays(vehicles, route_id) ==
    LET ids == InOrder({id \in DOMAIN vehicles : vehicles[id].route_id = route_id})
    IN  [n \in 1..Len(ids) |-> Fraction(vehicles[ids[n]].delay_seconds, 60)]

\* betamain.py: compute_line_stats.
ComputeLineStats(vehicles) ==
    [route_id \in RoutesOf(vehicles) |->
        [avg |-> Mean(LineDelays(vehicles, route_id)),
         nb |-> Len(LineDelays(vehicles, route_id))]]

\* main.py: line_delays[route_id] of display_results, the whole minutes of
\* the delays above one minute.
PositiveLineDelays(vehicles, route_id) ==
    LET ids == InOrder({id \in DOMAIN vehicles :
                          /\ vehicles[id].route_id = route_id
                          /\ vehicles[id].delay_seconds \div 60 > 0})
    IN  [n \in 1..Len(ids) |-> Whole(vehicles[ids[n]].delay_seconds \div 60)]

\* main.py: the averages display_results appends.
PositiveLineAverages(vehicles) ==
    [route_id \in {r \in RoutesOf(vehicles) : PositiveLineDelays(vehicles, r) # <<>>} |->
        Mean(PositiveLineDelays(vehicles, route_id))]

\* Variant of AppendSamples that replaces a route's samples by the new one.
AppendSamplesReplacing(hist, averages, label) ==
    [route_id \in DOMAIN hist \cup DOMAIN averages |->
        IF route_id \in DOMAIN averages
        THEN <<[label |-> label, avg |-> averages[route_id]]>>
        ELSE hist[route_id]]

\* history[route_id].append((label, avg)) for every route of averages.
AppendSamples(hist, averages, label) ==
    [route_id \in DOMAIN hist \cup DOMAIN averages |->
        IF route_id \in DOMAIN averages
        THEN Append(IF route_id \in DOMAIN hist THEN hist[route_id] ELSE <<>>,
                    [label |-> label, avg |-> averages[route_id]])
        ELSE hist[route_id]]

\* The averages of compute_line_stats.
LineAverages(vehicles) ==
    [route_id \in DOMAIN ComputeLineStats(vehicles) |-> ComputeLineStats(vehicles)[route_id].avg]

(***************************************************************************)
(* detect_anomalies (betamain.py).  The anomaly list is kept as the set of *)
(* its entries [id, reason]: a vehicle is visited once and each rule adds  *)
(* at most one entry for it.                                               *)
(***************************************************************************)
LargeDeviation == "Retard/avance très important"

AbnormalVsHistory == "Retard anormal par rapport à l'historique"

\* sum(r[1] for r in history[route_id]) / len(history[route_id])
AvgHist(hist, route_id) ==
    Mean([n \in 1..Len(hist[route_id]) |-> hist[route_id][n].avg])

DelayMin(v) == Fraction(v.delay_seconds, 60)

\* Variant of IsLarge with a strict comparison.
IsLargeStrict(v, threshold_minutes) ==
    FracLess(Whole(threshold_minutes), FracAbs(DelayMin(v)))

\* abs(delay_min) >= threshold_minutes
IsLarge(v, threshold_minutes) ==
    ~FracLess(FracAbs(DelayMin(v)), Whole(threshold_minutes))

\* Variant of IsAbnormal that requires only one of the two comparisons.
IsAbnormalEither(v, hist) ==
    /\ v.route_id \in DOMAIN hist
    /\ hist[v.route_id] # <<>>
    /\ \/ FracLess(FracTimes(2, FracAbs(AvgHist(hist, v.route_id))), FracAbs(DelayMin(v)))
       \/ FracLess(Whole(3), FracAbs(DelayMin(v)))

\* route_id in history and history[route_id], and both comparisons.
IsAbnormal(v, hist) ==
    /\ v.route_id \in DOMAIN hist
    /\ hist[v.route_id] # <<>>
    /\ FracLess(FracTimes(2, FracAbs(AvgHist(hist, v.route_id))), FracAbs(DelayMin(v)))
    /\ FracLess(Whole(3), FracAbs(DelayMin(v)))

Anomalies(vehicles, hist, threshold_minutes) ==
    {[id |-> id, reason |-> LargeDeviation] :
        id \in {x \in DOMAIN vehicles : IsLarge(vehicles[x], threshold_minutes)}}
    \cup {[id |-> id, reason |-> AbnormalVsHistory] :
        id \in {x \in DOMAIN vehicles : IsAbnormal(vehicles[x], hist)}}

\* Variant of Predictions that reads the latest sample only.
PredictionsLatest(hist) ==
    [route_id \in {r \in DOMAIN hist : hist[r] # <<>>} |->
        hist[route_id][Len(hist[route_id])].avg]

\* predict_delays (betamain.py): the mean of the samples of every route
\* that has samples.
Predictions(hist) ==
    [route_id \in {r \in DOMAIN hist : hist[r] # <<>>} |-> AvgHist(hist, route_id)]

\* Variant of Missing that keeps the observed trips.
MissingKeepObserved(scheduled_trips, observed_trips) == scheduled_trips

\* missing = scheduled_trips - observed_trips
Missing(scheduled_trips, observed_trips) == scheduled_trips \ observed_trips

(***************************************************************************)
(* Operations.  call holds the operation last invoked with its arguments,  *)
(* ret what it returned (or that it raised).                               *)
(***************************************************************************)
\* No call is in progress and no result is held.
Idle == [op |-> "idle"]

\* The caller drops the result of the last call before it makes the next.
Discard ==
    /\ call # Idle
    /\ call' = Idle
    /\ ret' = Returned({})
    /\ UNCHANGED <<archive, gtfs_data, history>>

GetActiveServiceIds(d) ==
    /\ call = Idle
    /\ call' = [op |-> "get_active_service_ids", today_date |-> d]
    /\ ret' = Returned(ActiveServiceIds(gtfs_data, d))
    /\ UNCHANGED <<archive, gtfs_data, history>>

GetScheduledTripsNow(now) ==
    /\ call = Idle
    /\ call' = [op |-> "get_scheduled_trips_now", now |-> now]
    /\ ret' = ScheduledTripsNow(gtfs_data, now)
    /\ UNCHANGED <<archive, gtfs_data, history>>

EstimateDelayFromPosition(trip_id, seq, position_time, now) ==
    /\ call = Idle
    /\ call' = [op |-> "estimate_delay_from_position", trip_id |-> trip_id,
                stop_sequence |-> seq, position_time |-> position_time, now |-> now]
    /\ ret' = EstimateDelay(gtfs_data, trip_id, seq, position_time, now)
    /\ UNCHANGED <<archive, gtfs_data, history>>

AnalyzeRealtimeFeed(feed, now) ==
    /\ call = Idle
    /\ call' = [op |-> "analyze_realtime_feed", feed |-> feed, now |-> now, run |-> 1]
    /\ ret' = AnalyzeFeed(feed, now, gtfs_data)
    /\ UNCHANGED <<archive, gtfs_data, history>>

\* analyze_realtime_feed called once more, right after a first call, as
\* the polling loop does in its next cycle.
AnalyzeRealtimeFeedAgain(feed) ==
    /\ call.op = "analyze_realtime_feed"
    /\ call.run = 1
    /\ call' = [op |-> "analyze_realtime_feed", feed |-> feed, now |-> call.now, run |-> 2]
    /\ ret' = AnalyzeFeed(feed, call.now, gtfs_data)
    /\ UNCHANGED <<archive, gtfs_data, history>>

DetectAnomalies(vehicles, threshold_minutes) ==
    /\ call = Idle
    /\ call' = [op |-> "detect_anomalies", vehicles |-> vehicles, history |-> history,
                threshold_minutes |-> threshold_minutes]
    /\ ret' = Returned(Anomalies(vehicles, history, threshold_minutes))
    /\ UNCHANGED <<archive, gtfs_data, history>>

PredictDelays ==
    /\ call = Idle
    /\ call' = [op |-> "predict_delays", history |-> history]
    /\ ret' = Returned(Predictions(history))
    /\ UNCHANGED <<archive, gtfs_data, history>>

\* The number of samples of all routes.
HistorySize(hist) == FracSum([n \in 1..Len(InOrder(DOMAIN hist)) |->
                                  Whole(Len(hist[InOrder(DOMAIN hist)[n]]))]).num

\* display_results of betamain.py: the missing trips, the history update,
\* then the anomalies against the updated history.
DisplayResults(vehicles, observed_trips, scheduled_trips, alert_threshold, now) ==
    /\ call = Idle
    /\ HistorySize(history) < MaxHistory
    /\ call' = [op |-> "display_results", source |-> "betamain", vehicles |-> vehicles,
                observed_trips |-> observed_trips, scheduled_trips |-> scheduled_trips,
                history |-> history, alert_threshold |-> alert_threshold, now |-> now]
    /\ history' = AppendSamples(history, LineAverages(vehicles), TimeLabel(now))
    /\ ret' = Returned([missing |-> Missing(scheduled_trips, observed_trips),
                        anomalies |-> Anomalies(vehicles, history', alert_threshold)])
    /\ UNCHANGED <<archive, gtfs_data>>

\* display_results of main.py: the missing trips and the history update.
DisplayResultsMain(vehicles, observed_trips, scheduled_trips, now) ==
    /\ call = Idle
    /\ HistorySize(history) < MaxHistory
    /\ call' = [op |-> "display_results", source |-> "main", vehicles |-> vehicles,
                observed_trips |-> observed_trips, scheduled_trips |-> scheduled_trips,
                history |-> history, alert_threshold |-> 0, now |-> now]
    /\ history' = AppendSamples(history, PositiveLineAverages(vehicles), TimeLabel(now))
    /\ ret' = Returned([missing |-> Missing(scheduled_trips, observed_trips),
                        anomalies |-> {}])
    /\ UNCHANGED <<archive, gtfs_data>>

GetNextStop(trip_id, current_stop_sequence) ==
    /\ call = Idle
    /\ call' = [op |-> "get_next_stop", trip_id |-> trip_id,
                current_stop_sequence |-> current_stop_sequence]
    /\ ret' = Returned(NextStop(gtfs_data, trip_id, current_stop_sequence))
    /\ UNCHANGED <<archive, gtfs_data, history>>

\* The vehicle records display_results cannot show: their trip is not in
\* the trips table, so trips[trips['trip_id'] == ...].iloc[0] raises.
Undisplayable(vehicles, data) ==
    {id \in DOMAIN vehicles : \A t \in data.trips : t.trip_id # vehicles[id].trip_id}

\* One pass of the polling loop of betamain.py, from the load of the
\* schedule to save_history, inside its try block.  fetched and loaded
\* tell whether fetch_gtfs_rt and load_gtfs_data return or raise.
PollingCycle(loaded, fetched, feed, now, alert_only) ==
    LET analysis == AnalyzeFeed(feed, now, gtfs_data)
        scheduled == ScheduledTripsNow(gtfs_data, now)
        reached == loaded /\ fetched /\ ~analysis.raised /\ ~scheduled.raised
        vehicles == analysis.value.vehicles
        shown == alert_only \/ Undisplayable(vehicles, gtfs_data) = {}
    IN  /\ call = Idle
        /\ HistorySize(history) < MaxHistory
        /\ call' = [op |-> "polling_cycle", loaded |-> loaded, fetched |-> fetched,
                    feed |-> feed, now |-> now, alert_only |-> alert_only,
                    history |-> history]
        /\ history' = IF reached
                      THEN AppendSamples(history, LineAverages(vehicles), TimeLabel(now))
                      ELSE history
        /\ ret' = IF reached /\ shown
                  THEN Returned([vehicles |-> vehicles,
                                 missing |-> Missing(scheduled.value,
                                                     analysis.value.observed_trips)])
                  ELSE Raised
        /\ UNCHANGED <<archive, gtfs_data>>

(***************************************************************************)
(* Archives the calendar resolver is exercised on.                         *)
(***************************************************************************)
FlagsOf(S) == [w \in Weekdays |-> IF w \in S THEN 1 ELSE 0]

ServiceIds == {"S1", "S2"}

CalendarRowChoices ==
    [service_id : ServiceIds,
     start_date : {Digits(20240630), Digits(20240701), BadText},
     end_date : {Digits(20240701), BadText},
     flags : {FlagsOf({"monday", "tuesday"}), FlagsOf({"sunday"})}]

ExceptionRowChoices ==
    [service_id : ServiceIds,
     date : {Digits(20240701), Digits(20240702)},
     exception_type : {1, 2}]

RECURSIVE UpTo(_, _)
\* The subsets of S with at most n elements.
UpTo(S, n) ==
    IF n = 0 THEN {{}}
    ELSE LET smaller == UpTo(S, n - 1)
         IN  smaller \cup {T \cup {x} : T \in smaller, x \in S}

DefaultTrips ==
    {[trip_id |-> "T1", route_id |-> "R1", service_id |-> "S1"],
     [trip_id |-> "T2", route_id |-> "R2", service_id |-> "S2"]}

DefaultStops ==
    {[stop_id |-> "A", stop_name |-> "Alpha"],
     [stop_id |-> "B", stop_name |-> "Beta"]}

CalendarArchives ==
    [calendar : UpTo(CalendarRowChoices, MaxCalendarRows),
     calendar_dates : UpTo(ExceptionRowChoices, MaxExceptionRows),
     trips : {DefaultTrips},
     stop_times : {{}},
     stops : {DefaultStops}]

InitCalendar ==
    /\ archive \in CalendarArchives
    /\ gtfs_data = LoadGtfsData(archive)
    /\ history = LoadHistory
    /\ call = Idle
    /\ ret = Returned({})

NextCalendar ==
    \/ /\ call = Idle
       /\ \E d \in Days : GetActiveServiceIds(d)
    \/ Discard

SpecCalendar == InitCalendar /\ [][NextCalendar]_vars

(***************************************************************************)
(* Archives the schedule window builder is exercised on.  Service S1 runs  *)
(* on Mondays and Tuesdays, S2 only through an added exception on Monday   *)
(* 2024-07-01, so that no service runs on day 0, both on day 1, S1 alone   *)
(* on day 2.  Trips T1 (S1) and T2 (S2) each have no stop times or one of  *)
(* the windows below; T3 (S1) never has stop times.                        *)
(***************************************************************************)
\* The text HH:MM:SS of an offset of m minutes from midnight of the service day.
ClockText(m) == Pad2(m \div 60) \o <<":">> \o Pad2(m % 60) \o <<":", "0", "0">>

\* A trip of three stops that leaves its first stop at minute first, reaches
\* its last stop at minute last, and waits two minutes at every stop.
TripRows(id, first, last) ==
    {[trip_id |-> id, stop_sequence |-> 1, stop_id |-> "A",
      arrival_time |-> ClockText(first - 2), departure_time |-> ClockText(first)],
     [trip_id |-> id, stop_sequence |-> 2, stop_id |-> "B",
      arrival_time |-> ClockText(first + 5), departure_time |-> ClockText(first + 7)],
     [trip_id |-> id, stop_sequence |-> 3, stop_id |-> "C",
      arrival_time |-> ClockText(last), departure_time |-> ClockText(last + 2)]}

\* <<first departure, last arrival>> in minutes: 04:59-05:20, 05:00-05:40,
\* 00:10-00:40, 24:10-24:40, 17:30-18:10.
WindowChoices ==
    {<<4 * 60 + 59, 5 * 60 + 20>>, <<5 * 60, 5 * 60 + 40>>, <<10, 40>>,
     <<24 * 60 + 10, 24 * 60 + 40>>, <<17 * 60 + 30, 18 * 60 + 10>>}

TripStopTimes(id) == {{}} \cup {TripRows(id, w[1], w[2]) : w \in WindowChoices}

WindowTrips ==
    {[trip_id |-> "T1", route_id |-> "R1", service_id |-> "S1"],
     [trip_id |-> "T2", route_id |-> "R2", service_id |-> "S2"],
     [trip_id |-> "T3", route_id |-> "R1", service_id |-> "S1"]}

WindowStops ==
    {[stop_id |-> "A", stop_name |-> "Alpha"],
     [stop_id |-> "B", stop_name |-> "Beta"],
     [stop_id |-> "C", stop_name |-> "Gamma"]}

WindowCalendar ==
    {[service_id |-> "S1", start_date |-> Digits(20240630), end_date |-> Digits(20240731),
      flags |-> FlagsOf({"monday", "tuesday"})]}

WindowCalendarDates ==
    {[service_id |-> "S2", date |-> Digits(20240701), exception_type |-> 1]}

WindowArchives ==
    {[calendar |-> WindowCalendar,
      calendar_dates |-> WindowCalendarDates,
      trips |-> WindowTrips,
      stop_times |-> a \cup b,
      stops |-> WindowStops] : a \in TripStopTimes("T1"), b \in TripStopTimes("T2")}

\* The instants get_scheduled_trips_now is asked about: on every day, both
\* ends of every window (the end with its grace period), one second and one
\* millisecond before and after each, and the hours around the evening
\* threshold.
ClockChoices ==
    UNION {{(w[1] % (24 * 60)) * MinuteMs + k,
            ((w[2] + GraceMinutes) % (24 * 60)) * MinuteMs + k}
           : w \in WindowChoices, k \in {0 - SecondMs, 0 - 1, 0, 1, SecondMs}}
    \cup {EveningHour * HourMs - 1, EveningHour * HourMs, 23 * HourMs, 20 * MinuteMs}

NowChoices == {d * DayMs + c : d \in Days, c \in ClockChoices}

InitWindow ==
    /\ archive \in WindowArchives
    /\ gtfs_data = LoadGtfsData(archive)
    /\ history = LoadHistory
    /\ call = Idle
    /\ ret = Returned({})

NextWindow ==
    \/ /\ call = Idle
       /\ \E now \in NowChoices : GetScheduledTripsNow(now)
    \/ Discard

SpecWindow == InitWindow /\ [][NextWindow]_vars

(***************************************************************************)
(* Archives the delay estimator is exercised on: trip T1 with a first stop *)
(* at one of the times below, its arrival time present or missing, and a   *)
(* third stop at noon; no second stop.                                     *)
(***************************************************************************)
\* 00:05, 12:00, 23:50, 24:30, 27:30 in minutes.
ScheduledChoices == {5, 12 * 60, 23 * 60 + 50, 24 * 60 + 30, 27 * 60 + 30}

DelayRowChoices ==
    {[trip_id |-> "T1", stop_sequence |-> 1, stop_id |-> "A",
      arrival_time |-> IF present THEN ClockText(m) ELSE NaN,
      departure_time |-> ClockText(m + 1)]
     : m \in ScheduledChoices, present \in BOOLEAN}

DelayArchives ==
    {[calendar |-> WindowCalendar,
      calendar_dates |-> WindowCalendarDates,
      trips |-> WindowTrips,
      stop_times |-> {r, [trip_id |-> "T1", stop_sequence |-> 3, stop_id |-> "C",
                          arrival_time |-> ClockText(12 * 60),
                          departure_time |-> ClockText(12 * 60 + 1)]},
      stops |-> WindowStops] : r \in DelayRowChoices}

\* The instants of the calls: on every day midnight, 00:10, noon, 23:55, and
\* the instants exactly three hours, and a millisecond more, before 12:00,
\* 12:01, 23:50 and 23:51.
DelayClockChoices ==
    {0, 10 * MinuteMs, 12 * HourMs, 23 * HourMs + 55 * MinuteMs}
    \cup UNION {{(m - RolloverHours * 60) * MinuteMs, (m - RolloverHours * 60) * MinuteMs - 1}
                : m \in {12 * 60, 12 * 60 + 1, 23 * 60 + 50, 23 * 60 + 51}}

DelayNowChoices == {d * DayMs + c : d \in Days, c \in DelayClockChoices}

\* The observed instants: now, or five minutes (and half a second more)
\* before or after it, or a quarter of a second after it.
PositionOffsets ==
    {0, 250, 300 * SecondMs, 0 - 300 * SecondMs, 300 * SecondMs + 500, 0 - (300 * SecondMs + 500)}

InitDelay ==
    /\ archive \in DelayArchives
    /\ gtfs_data = LoadGtfsData(archive)
    /\ history = LoadHistory
    /\ call = Idle
    /\ ret = Returned({})

NextDelay ==
    \/ /\ call = Idle
       /\ \E trip_id \in {"T1", "T9"}, seq \in 1..3, now \in DelayNowChoices, k \in PositionOffsets :
               EstimateDelayFromPosition(trip_id, seq, now + k, now)
    \/ Discard

SpecDelay == InitDelay /\ [][NextDelay]_vars

(***************************************************************************)
(* The feeds the reconciler is exercised on, against a schedule where trip *)
(* T1 calls at stops 1, 2, 3 around noon and trip T2 at stops 1, 3, 5      *)
(* around 23:50.                                                           *)
(***************************************************************************)
FeedStopTimes ==
    TripRows("T1", 12 * 60, 12 * 60 + 30)
    \cup {[trip_id |-> "T2", stop_sequence |-> n, stop_id |-> IF n = 3 THEN "B" ELSE "A",
           arrival_time |-> IF n = 3 THEN NaN ELSE ClockText(23 * 60 + 50 + n),
           departure_time |-> ClockText(23 * 60 + 51 + n)] : n \in {1, 3, 5}}

FeedArchive ==
    [calendar |-> WindowCalendar,
     calendar_dates |-> WindowCalendarDates,
     trips |-> WindowTrips,
     stop_times |-> FeedStopTimes,
     stops |-> WindowStops]

\* An entity without a vehicle message: no field is set.
Blank ==
    [has_vehicle |-> FALSE, has_trip_id |-> FALSE, trip_id |-> "",
     has_id |-> FALSE, id |-> "", has_label |-> FALSE, label |-> "",
     has_route_id |-> FALSE, route_id |-> "", current_status |-> 0,
     has_timestamp |-> FALSE, timestamp |-> 0, has_seq |-> FALSE, seq |-> 0,
     has_occupancy |-> FALSE, occupancy |-> 0]

Vehicle(id, label, trip_id) ==
    [Blank EXCEPT !.has_vehicle = TRUE, !.has_trip_id = TRUE, !.trip_id = trip_id,
                  !.has_id = TRUE, !.id = id, !.has_label = TRUE, !.label = label]

\* Noon of day 1 in seconds.
NoonSeconds == (DayMs + 12 * HourMs) \div SecondMs

EntityChoices ==
    {\* a complete report: V1 on T1 at its first stop, five minutes late
     [Vehicle("V1", "L1", "T1") EXCEPT !.has_route_id = TRUE, !.route_id = "R1",
         !.has_seq = TRUE, !.seq = 1, !.has_timestamp = TRUE,
         !.timestamp = NoonSeconds + 180, !.has_occupancy = TRUE, !.occupancy = 3,
         !.current_status = 1],
     \* the same label on another trip, nothing else set
     Vehicle("V2", "L1", "T2"),
     \* the first vehicle again, on another trip, at a stop followed by a gap
     [Vehicle("V1", "L1", "T2") EXCEPT !.has_seq = TRUE, !.seq = 3, !.current_status = 2],
     \* not a vehicle message
     Blank,
     \* a vehicle message without trip id
     [Vehicle("V4", "L4", "") EXCEPT !.has_trip_id = FALSE],
     \* a vehicle message with a trip id and no vehicle id or label
     [Blank EXCEPT !.has_vehicle = TRUE, !.has_trip_id = TRUE, !.trip_id = "T1"],
     \* no label, a trip the schedule does not know, unknown codes
     [Vehicle("V3", "", "T9") EXCEPT !.has_label = FALSE, !.has_seq = TRUE, !.seq = 2,
         !.current_status = 7, !.has_occupancy = TRUE, !.occupancy = 9],
     \* at the last stop of T1
     [Vehicle("V2", "L2", "T1") EXCEPT !.has_seq = TRUE, !.seq = 3]}

RECURSIVE FeedsOfLength(_)
FeedsOfLength(n) ==
    IF n = 0 THEN {<<>>}
    ELSE {Append(f, e) : f \in FeedsOfLength(n - 1), e \in EntityChoices}

FeedChoices == UNION {FeedsOfLength(n) : n \in 0..MaxFeed}

FeedNowChoices == {DayMs + 12 * HourMs + 5 * MinuteMs + 250, DayMs + 23 * HourMs + 55 * MinuteMs}

InitFeed ==
    /\ archive = FeedArchive
    /\ gtfs_data = LoadGtfsData(archive)
    /\ history = LoadHistory
    /\ call = Idle
    /\ ret = Returned({})

NextFeed ==
    \/ /\ call = Idle
       /\ \E feed \in FeedChoices, now \in FeedNowChoices : AnalyzeRealtimeFeed(feed, now)
    \/ /\ call.op = "analyze_realtime_feed"
       /\ \E feed \in {call.feed} \cup FeedsOfLength(1) : AnalyzeRealtimeFeedAgain(feed)
    \/ Discard

SpecFeed == InitFeed /\ [][NextFeed]_vars

(***************************************************************************)
(* The vehicle records and histories the anomaly rules are exercised on,   *)
(* around the thresholds of ten and five minutes, the three-minute floor   *)
(* and twice the historical average.                                       *)
(***************************************************************************)
Record(route_id, delay_seconds) == [route_id |-> route_id, delay_seconds |-> delay_seconds]

\* The vehicle maps with V1 as given and V2 absent or as given.
VehicleMaps(first, second) ==
    {[id \in {"V1"} |-> v] : v \in first}
    \cup {[id \in {"V1", "V2"} |-> IF id = "V1" THEN v ELSE w] : v \in first, w \in second}

AnomalyDelayChoices == {0, 180, 181, -181, 299, 300, 599, 600, -599, -600, 1200}

AnomalyVehicleChoices ==
    VehicleMaps({Record("R1", d) : d \in AnomalyDelayChoices}, {Record("R2", 600)})

Sample(label, num, den) == [label |-> label, avg |-> Fraction(num, den)]

HistoryChoices ==
    LET l == TimeLabel(12 * HourMs)
        one(r, s) == [route_id \in {r} |-> s]
    IN  {LoadHistory,
         one("R1", <<>>),
         one("R1", <<Sample(l, 0, 1)>>),
         one("R1", <<Sample(l, 5, 1)>>),
         one("R1", <<Sample(l, -5, 1)>>),
         one("R1", <<Sample(l, 3, 2)>>),
         one("R1", <<Sample(l, 5, 1), Sample(l, 15, 1)>>),
         one("R2", <<Sample(l, 10, 1)>>),
         [route_id \in {"R1", "R2", "R3"} |->
             CASE route_id = "R1" -> <<Sample(l, 5, 1), Sample(l, 15, 1), Sample(l, -5, 2)>>
               [] route_id = "R2" -> <<>>
               [] OTHER -> <<Sample(l, -7, 3)>>]}

ThresholdChoices == {5, 10}

InitAnomaly ==
    /\ archive = FeedArchive
    /\ gtfs_data = LoadGtfsData(archive)
    /\ history \in HistoryChoices
    /\ call = Idle
    /\ ret = Returned({})

NextAnomaly ==
    \/ /\ call = Idle
       /\ \E vehicles \in AnomalyVehicleChoices, threshold_minutes \in ThresholdChoices :
             DetectAnomalies(vehicles, threshold_minutes)
    \/ PredictDelays
    \/ Discard

SpecAnomaly == InitAnomaly /\ [][NextAnomaly]_vars

(***************************************************************************)
(* The cycles the history is built by: up to two vehicles on two routes,   *)
(* early, on time and late.                                                *)
(***************************************************************************)
CycleVehicleChoices ==
    {[id \in {} |-> Record("R1", 0)]}
    \cup VehicleMaps({Record("R1", d) : d \in {-300, 0, 600}},
                     {Record(r, 600) : r \in {"R1", "R2"}})

TripSetChoices ==
    {[scheduled |-> {"T1", "T2", "T3"}, observed |-> {"T2"}],
     [scheduled |-> {"T1"}, observed |-> {"T1", "T9"}],
     [scheduled |-> {}, observed |-> {}]}

CycleNowChoices == {DayMs + 12 * HourMs + 5 * MinuteMs + 250, DayMs + 23 * HourMs + 55 * MinuteMs}

InitCycle ==
    /\ archive = FeedArchive
    /\ gtfs_data = LoadGtfsData(archive)
    /\ history = LoadHistory
    /\ call = Idle
    /\ ret = Returned({})

NextCycle ==
    \/ /\ call = Idle
       /\ \E vehicles \in CycleVehicleChoices, trips \in TripSetChoices, now \in CycleNowChoices :
             \/ DisplayResults(vehicles, trips.observed, trips.scheduled, 10, now)
             \/ DisplayResultsMain(vehicles, trips.observed, trips.scheduled, now)
    \/ Discard

SpecCycle == InitCycle /\ [][NextCycle]_vars

(***************************************************************************)
(* Archives with damaged stop times: the times of trip T1 are as written,  *)
(* not times at all, lacking their seconds, or empty cells, in every row   *)
(* or in the arrival of the second row only; trip T3 of the same service   *)
(* is intact.                                                              *)
(***************************************************************************)
ShortText == <<"1", "2", ":", "0", "0">>

DamageChoices == {"intact", "bad", "short", "missing", "one bad arrival"}

Damaged(rows, damage) ==
    LET text == CASE damage = "bad" -> BadText
                  [] damage = "short" -> ShortText
                  [] OTHER -> NaN
    IN  {CASE damage = "intact" -> r
           [] damage = "one bad arrival" ->
                  IF r.stop_sequence = 2 THEN [r EXCEPT !.arrival_time = BadText] ELSE r
           [] OTHER -> [r EXCEPT !.arrival_time = text, !.departure_time = text]
         : r \in rows}

DamagedArchives ==
    {[calendar |-> WindowCalendar,
      calendar_dates |-> WindowCalendarDates,
      trips |-> WindowTrips,
      stop_times |-> Damaged(TripRows("T1", 12 * 60, 12 * 60 + 30), damage)
                     \cup TripRows("T3", 12 * 60 + 10, 12 * 60 + 40),
      stops |-> WindowStops] : damage \in DamageChoices}

\* Sunday (no service active) and Monday, at 12:15 and 18:30.
DamagedNowChoices ==
    {d * DayMs + c : d \in {0, 1}, c \in {12 * HourMs + 15 * MinuteMs, 18 * HourMs + 30 * MinuteMs}}

InitDamaged ==
    /\ archive \in DamagedArchives
    /\ gtfs_data = LoadGtfsData(archive)
    /\ history = LoadHistory
    /\ call = Idle
    /\ ret = Returned({})

NextDamaged ==
    \/ /\ call = Idle
       /\ \E now \in DamagedNowChoices : GetScheduledTripsNow(now)
    \/ /\ call = Idle
       /\ \E trip_id \in {"T1", "T3"}, seq \in 1..3, now \in DamagedNowChoices,
             offset \in {0, 90 * SecondMs} :
             EstimateDelayFromPosition(trip_id, seq, now - offset, now)
    \/ Discard

SpecDamaged == InitDamaged /\ [][NextDamaged]_vars

(***************************************************************************)
(* Archives the next-stop lookup is exercised on: trip T1 calls at stops   *)
(* 1, 2, 3 and trip T2, when it has stop times, at 1, 3, 5; the stops      *)
(* table is complete or lacks stop B.                                      *)
(***************************************************************************)
MaxSequence == 7

NextStopArchives ==
    {[FeedArchive EXCEPT !.stop_times = rows, !.stops = stops] :
        rows \in {FeedStopTimes, {r \in FeedStopTimes : r.trip_id = "T1"}},
        stops \in {WindowStops, {x \in WindowStops : x.stop_id # "B"}}}

SequenceChoices == {NoSeq} \cup {SomeSeq(n) : n \in 0..MaxSequence}

InitNextStop ==
    /\ archive \in NextStopArchives
    /\ gtfs_data = LoadGtfsData(archive)
    /\ history = LoadHistory
    /\ call = Idle
    /\ ret = Returned({})

NextNextStop ==
    \/ /\ call = Idle
       /\ \E trip_id \in {"T1", "T2", "T9"}, seq \in SequenceChoices : GetNextStop(trip_id, seq)
    \/ Discard

SpecNextStop == InitNextStop /\ [][NextNextStop]_vars

(***************************************************************************)
(* The polling loop: feeds of up to two reports, one on a trip of the      *)
(* schedule and one on a trip the trips table does not have, with the      *)
(* fetch and the load succeeding or failing.                               *)
(***************************************************************************)
LoopEntities == {e \in EntityChoices : e.has_id /\ e.trip_id \in {"T1", "T9"} /\ e.id # "V2"}

LoopFeedChoices ==
    {<<>>} \cup {<<e>> : e \in LoopEntities} \cup {<<e, f>> : e, f \in LoopEntities}

InitLoop ==
    /\ archive = FeedArchive
    /\ gtfs_data = LoadGtfsData(archive)
    /\ history = LoadHistory
    /\ call = Idle
    /\ ret = Returned({})

NextLoop ==
    \/ /\ call = Idle
       /\ \E loaded, fetched, alert_only \in BOOLEAN, feed \in LoopFeedChoices,
             now \in FeedNowChoices :
             PollingCycle(loaded, fetched, feed, now, alert_only)
    \/ Discard

SpecLoop == InitLoop /\ [][NextLoop]_vars

(***************************************************************************)
(* Archives whose hours are written without a leading zero: trip T1 runs   *)
(* 9:05-10:00, 8:00-9:00 or 23:50-24:20, or 09:05-10:00 with the zero.     *)
(***************************************************************************)
\* The text H:MM:SS of an offset of m minutes, the hour as it is.
PlainClockText(m) == Digits(m \div 60) \o <<":">> \o Pad2(m % 60) \o <<":", "0", "0">>

\* The rows of TripRows with the hours written without leading zero.
PlainTripRows(id, first, last) ==
    {[trip_id |-> id, stop_sequence |-> 1, stop_id |-> "A",
      arrival_time |-> PlainClockText(first - 2), departure_time |-> PlainClockText(first)],
     [trip_id |-> id, stop_sequence |-> 2, stop_id |-> "B",
      arrival_time |-> PlainClockText(first + 5), departure_time |-> PlainClockText(first + 7)],
     [trip_id |-> id, stop_sequence |-> 3, stop_id |-> "C",
      arrival_time |-> PlainClockText(last), departure_time |-> PlainClockText(last + 2)]}

PlainWindowChoices ==
    {<<9 * 60 + 5, 10 * 60>>, <<8 * 60, 9 * 60>>, <<23 * 60 + 50, 24 * 60 + 20>>}

PlainArchives ==
    {[FeedArchive EXCEPT !.stop_times = rows] :
        rows \in {PlainTripRows("T1", w[1], w[2]) : w \in PlainWindowChoices}
                 \cup {TripRows("T1", 9 * 60 + 5, 10 * 60)}}

\* On every day, the ends of every window and the minutes around them.
PlainNowChoices ==
    {d * DayMs + (m % (24 * 60)) * MinuteMs + k :
        d \in Days, k \in {0 - SecondMs, 0, SecondMs},
        m \in UNION {{w[1], w[1] + 25, w[2] + GraceMinutes} : w \in PlainWindowChoices}}

InitPlain ==
    /\ archive \in PlainArchives
    /\ gtfs_data = LoadGtfsData(archive)
    /\ history = LoadHistory
    /\ call = Idle
    /\ ret = Returned({})

NextPlain ==
    \/ /\ call = Idle
       /\ \E now \in PlainNowChoices : GetScheduledTripsNow(now)
    \/ Discard

SpecPlain == InitPlain /\ [][NextPlain]_vars

(***************************************************************************)
(* Calendar resolver: properties.                                          *)
(***************************************************************************)
AfterActive == call.op = "get_active_service_ids"

HasException(d, s, type) ==
    \E e \in gtfs_data.calendar_dates :
        e.service_id = s /\ e.date = Ymd(d) /\ e.exception_type = type

InRangeOnWeekday(c, d) ==
    c.start_date <= Ymd(d) /\ Ymd(d) <= c.end_date /\ c.flags[Weekday(d)] = 1

\* C4: after get_active_service_ids(d), every calendar entry whose inclusive
\* range [start_date, end_date] contains ymd(d) and whose flag for d's weekday
\* is set has its service id in the result unless a removed exception exists
\* for that service on d; and a service id in the result that no such entry
\* supports is there through an added exception dated d.
C4_WeeklyPattern ==
    AfterActive =>
        LET d == call.today_date
        IN  /\ \A c \in gtfs_data.calendar :
                (InRangeOnWeekday(c, d) /\ ~HasException(d, c.service_id, 2))
                    => c.service_id \in ret.value
            /\ \A s \in ret.value :
                \/ \E c \in gtfs_data.calendar : c.service_id = s /\ InRangeOnWeekday(c, d)
                \/ HasException(d, s, 1)

\* An entry whose end_date is the target date itself activates its service,
\* and the result also holds nothing for an entry that ends the day before.
C4_Witness ==
    /\ AfterActive
    /\ ~ret.raised
    /\ \E c \in gtfs_data.calendar :
        /\ c.end_date = Ymd(call.today_date)
        /\ c.start_date = Ymd(call.today_date)
        /\ c.flags[Weekday(call.today_date)] = 1
        /\ c.service_id \in ret.value
        /\ ~HasException(call.today_date, c.service_id, 1)
    /\ \E c \in gtfs_data.calendar :
        /\ c.flags[Weekday(call.today_date)] = 0
        /\ c.service_id \notin ret.value

\* The result the resolver gives once the exceptions dated another day are
\* taken out of the table.
WithoutOtherDates(d) ==
    [gtfs_data EXCEPT !.calendar_dates = {e \in gtfs_data.calendar_dates : e.date = Ymd(d)}]

\* C5 as stated: an added exception dated d makes its service active, a
\* removed exception dated d makes its service inactive, exceptions dated
\* another day change nothing.
C5_AsStated ==
    AfterActive =>
        LET d == call.today_date
        IN  /\ \A s \in ServiceIds : HasException(d, s, 1) => s \in ret.value
            /\ \A s \in ServiceIds : HasException(d, s, 2) => s \notin ret.value
            /\ ret.value = ActiveServiceIds(WithoutOtherDates(d), d)

\* C5 (amended): an added exception dated d makes its service active even
\* when no calendar entry activates it; a removed exception dated d makes its
\* service inactive unless the same service also has an added exception dated
\* d, which wins; exceptions dated another day change nothing.
C5_Exceptions ==
    AfterActive =>
        LET d == call.today_date
        IN  /\ \A s \in ServiceIds : HasException(d, s, 1) => s \in ret.value
            /\ \A s \in ServiceIds :
                (HasException(d, s, 2) /\ ~HasException(d, s, 1)) => s \notin ret.value
            /\ ret.value = ActiveServiceIds(WithoutOtherDates(d), d)

\* One call where an added exception activates a service the weekly pattern
\* leaves out, a removed exception deactivates one it activates.
C5_Witness ==
    /\ AfterActive
    /\ \E s \in ServiceIds :
        /\ HasException(call.today_date, s, 1)
        /\ s \notin WeeklyActive(gtfs_data, call.today_date)
        /\ s \in ret.value
    /\ \E s \in ServiceIds :
        /\ HasException(call.today_date, s, 2)
        /\ s \in WeeklyActive(gtfs_data, call.today_date)
        /\ s \notin ret.value

\* The archive rows that loaded as c: same service and flags, dates coerced.
Unparsable(text) == ~IsNumeral(text)

\* C6: a calendar entry whose start_date or end_date is unparsable never
\* makes its service active: with no other entry of that service and no
\* added exception, the service is not in the result.
C6_UnparsableNeverActive ==
    AfterActive =>
        \A r \in archive.calendar :
            ( /\ Unparsable(r.start_date) \/ Unparsable(r.end_date)
              /\ \A q \in archive.calendar : q.service_id = r.service_id => q = r
              /\ ~HasException(call.today_date, r.service_id, 1) )
                => r.service_id \notin ret.value

(***************************************************************************)
(* Schedule window builder: properties.  The times of these archives are   *)
(* written HH:MM:SS, so a time's numeric value is read off its digits.     *)
(***************************************************************************)
AfterScheduled == call.op = "get_scheduled_trips_now"

TwoDigits(text, i) == 10 * DigitValue(text[i]) + DigitValue(text[i + 1])

\* The offset in milliseconds that a text HH:MM:SS stands for.
OffsetMs(text) ==
    TwoDigits(text, 1) * HourMs + TwoDigits(text, 4) * MinuteMs + TwoDigits(text, 7) * SecondMs

StopTimesOf(id) == {r \in gtfs_data.stop_times : r.trip_id = id}

\* The numerically earliest departure and latest arrival of a trip.
FirstDeparture(id) ==
    CHOOSE x \in {OffsetMs(r.departure_time) : r \in StopTimesOf(id)} :
        \A r \in StopTimesOf(id) : x <= OffsetMs(r.departure_time)

LastArrival(id) ==
    CHOOSE x \in {OffsetMs(r.arrival_time) : r \in StopTimesOf(id)} :
        \A r \in StopTimesOf(id) : x >= OffsetMs(r.arrival_time)

\* Whether the overnight correction applies to a trip at an instant: the
\* hour-of-day of its start is before 5 and that of the instant is 18 or more.
Corrected(id, now) ==
    /\ (FirstDeparture(id) \div HourMs) % 24 < 5
    /\ (now % DayMs) \div HourMs >= 18

\* start and end of a trip as instants, the overnight correction applied.
StartAt(id, now) ==
    (now \div DayMs) * DayMs + FirstDeparture(id) - (IF Corrected(id, now) THEN DayMs ELSE 0)

EndAt(id, now) ==
    (now \div DayMs) * DayMs + LastArrival(id) - (IF Corrected(id, now) THEN DayMs ELSE 0)

OnActiveService(id, now) ==
    \E t \in gtfs_data.trips :
        t.trip_id = id /\ t.service_id \in ActiveServiceIds(gtfs_data, now \div DayMs)

TripIds == {t.trip_id : t \in gtfs_data.trips}

\* C1: get_scheduled_trips_now(now) returns exactly the trips that belong to a
\* service active on now's date, have at least one stop-time entry, and
\* satisfy start <= now <= end + 15 minutes after the overnight correction,
\* both bounds included.
C1_ScheduledNow ==
    AfterScheduled =>
        /\ ~ret.raised
        /\ ret.value =
            {id \in TripIds :
                /\ OnActiveService(id, call.now)
                /\ StopTimesOf(id) # {}
                /\ StartAt(id, call.now) <= call.now
                /\ call.now <= EndAt(id, call.now) + 15 * MinuteMs}
        /\ \A id \in TripIds :
            (OnActiveService(id, call.now) /\ StopTimesOf(id) # {}) =>
                /\ call.now = EndAt(id, call.now) + 15 * MinuteMs => id \in ret.value
                /\ call.now = EndAt(id, call.now) + 15 * MinuteMs + SecondMs
                    => id \notin ret.value
                /\ call.now = StartAt(id, call.now) => id \in ret.value
                /\ call.now = StartAt(id, call.now) - SecondMs => id \notin ret.value

\* A call at exactly end + 15 minutes of one trip, which is returned, while
\* a trip of the same service without stop times is not.
C1_Witness ==
    /\ AfterScheduled
    /\ ~ret.raised
    /\ \E id \in ret.value : call.now = EndAt(id, call.now) + 15 * MinuteMs
    /\ \E id \in TripIds :
        OnActiveService(id, call.now) /\ StopTimesOf(id) = {} /\ id \notin ret.value

\* The case of C2: a trip of an active service whose window is 00:10-00:40,
\* asked about at 23:00.
OvernightCase(id) ==
    /\ AfterScheduled
    /\ OnActiveService(id, call.now)
    /\ StopTimesOf(id) # {}
    /\ FirstDeparture(id) = 10 * MinuteMs
    /\ LastArrival(id) = 40 * MinuteMs
    /\ call.now % DayMs = 23 * HourMs

\* C2 as stated: such a trip is in the scheduled set.
C2_AsStated == \A id \in TripIds : OvernightCase(id) => (~ret.raised /\ id \in ret.value)

\* C2 (amended): a trip of an active service whose window is 00:10-00:40,
\* asked about at 23:00 of the same date, is not in the scheduled set: the
\* overnight correction moves its window to 00:10-00:55 of the day before.
C2_OvernightExcluded ==
    \A id \in TripIds :
        OvernightCase(id) =>
            /\ ~ret.raised
            /\ id \notin ret.value
            /\ EndAt(id, call.now) + 15 * MinuteMs = (call.now \div DayMs) * DayMs - DayMs + 55 * MinuteMs

C2_Witness == \E id \in TripIds : OvernightCase(id) /\ id \notin ret.value

\* C3: start and end are both moved back by exactly one day if and only if the
\* hour-of-day of start is below 5 and the hour-of-day of now is 18 or more;
\* otherwise neither is moved.
C3_OvernightShift ==
    AfterScheduled =>
        \A b \in Bounds(gtfs_data) :
            LET w == Window(b, call.now)
                base == (call.now \div DayMs) * DayMs
                id == b.trip_id
            IN  IF Corrected(id, call.now)
                THEN /\ w.start_dt = base + FirstDeparture(id) - DayMs
                     /\ w.end_dt = base + LastArrival(id) - DayMs
                ELSE /\ w.start_dt = base + FirstDeparture(id)
                     /\ w.end_dt = base + LastArrival(id)

\* A start at 04:59 asked about at 18:00:00 is moved, while in the same call
\* a start at 05:00 is not.
C3_Witness ==
    /\ AfterScheduled
    /\ call.now % DayMs = 18 * HourMs
    /\ \E b \in Bounds(gtfs_data) :
        /\ FirstDeparture(b.trip_id) = 4 * HourMs + 59 * MinuteMs
        /\ Window(b, call.now).start_dt = Midnight(call.now) - DayMs + FirstDeparture(b.trip_id)
    /\ \E b \in Bounds(gtfs_data) :
        /\ FirstDeparture(b.trip_id) = 5 * HourMs
        /\ Window(b, call.now).start_dt = Midnight(call.now) + FirstDeparture(b.trip_id)

(***************************************************************************)
(* Delay estimator: properties.                                            *)
(***************************************************************************)
AfterDelay == call.op = "estimate_delay_from_position"

\* The stop-time entries of the call's (trip, stop_sequence).
Matched ==
    {r \in gtfs_data.stop_times :
        r.trip_id = call.trip_id /\ r.stop_sequence = call.stop_sequence}

\* The instant a time text stands for on now's date, moved one day back
\* when it lies more than three hours after now.
ReferenceAt(text, now) ==
    LET parsed == (now \div DayMs) * DayMs + OffsetMs(text)
    IN  IF parsed - now > 3 * HourMs THEN parsed - DayMs ELSE parsed

\* v is the difference in whole seconds, the fraction cut off.
IsWholeSecondsOf(v, ms) ==
    IF ms >= 0
    THEN v >= 0 /\ v * 1000 <= ms /\ ms < (v + 1) * 1000
    ELSE v <= 0 /\ v * 1000 >= ms /\ ms > (v - 1) * 1000

DelayAt(position_time) ==
    EstimateDelay(gtfs_data, call.trip_id, call.stop_sequence, position_time, call.now).value

SymmetryOffsets == {0, 1, 999, 1000, 300 * SecondMs, 300 * SecondMs + 500, 4 * HourMs}

\* C7: for a matched stop-time entry the delay is the observed time minus the
\* corrected scheduled time in whole seconds, positive when late and
\* negative when early; 300 s after the schedule gives +300, 300 s before
\* gives -300, and delay(sched + k) = -delay(sched - k) for every k.
C7_SignedDelay ==
    (AfterDelay /\ Matched # {}) =>
        \A r \in Matched :
            LET sched == ReferenceAt(IF r.arrival_time # NaN THEN r.arrival_time
                                     ELSE r.departure_time, call.now)
            IN  /\ ~ret.raised
                /\ IsWholeSecondsOf(ret.value, call.position_time - sched)
                /\ call.position_time - sched >= SecondMs => ret.value > 0
                /\ sched - call.position_time >= SecondMs => ret.value < 0
                /\ DelayAt(sched + 300 * SecondMs) = 300
                /\ DelayAt(sched - 300 * SecondMs) = 0 - 300
                /\ \A k \in SymmetryOffsets : DelayAt(sched + k) = 0 - DelayAt(sched - k)

\* A vehicle seen 300.5 s before the scheduled time: the delay is -300.
C7_Witness ==
    /\ AfterDelay
    /\ \E r \in Matched :
        /\ r.arrival_time # NaN
        /\ call.position_time - ReferenceAt(r.arrival_time, call.now) = 0 - (300 * SecondMs + 500)
        /\ ret.value = 0 - 300

\* C8: the scheduled time parsed against midnight of now's date is moved
\* back one day exactly when it is more than 3 hours after now, and after
\* the correction it is never more than 3 hours after now.
C8_RolloverWithinHorizon ==
    (AfterDelay /\ Matched # {}) =>
        \A r \in Matched :
            LET parsed == ParseGtfsTime(ScheduledStr(r), Midnight(call.now)).dt
                corrected == Rollover(parsed, call.now)
            IN  /\ corrected = parsed - DayMs <=> parsed > call.now + 3 * HourMs
                /\ corrected # parsed - DayMs => corrected = parsed
                /\ corrected <= call.now + 3 * HourMs

\* C9: with no stop-time entry for (trip, stop_sequence) the delay is 0 and
\* nothing is raised; with an entry, the scheduled reference is its arrival
\* time when present and its departure time otherwise.
C9_ReferenceTime ==
    AfterDelay =>
        /\ Matched = {} => ret = Returned(0)
        /\ \A r \in Matched :
            /\ ~ret.raised
            /\ r.arrival_time # NaN =>
                IsWholeSecondsOf(ret.value,
                                 call.position_time - ReferenceAt(r.arrival_time, call.now))
            /\ r.arrival_time = NaN =>
                IsWholeSecondsOf(ret.value,
                                 call.position_time - ReferenceAt(r.departure_time, call.now))

\* An entry without arrival time, seen four minutes after its departure
\* time: the delay is 240.
C9_Witness ==
    /\ AfterDelay
    /\ \E r \in Matched :
        /\ r.arrival_time = NaN
        /\ call.position_time = ReferenceAt(r.departure_time, call.now) + 240 * SecondMs
        /\ ret.value = 240


(***************************************************************************)
(* Feed reconciler: properties.                                            *)
(***************************************************************************)
AfterAnalyze == call.op = "analyze_realtime_feed"

\* The entity has no trip id or no vehicle id.
LacksIdentification(e) == ~e.has_vehicle \/ ~e.has_trip_id \/ ~e.has_id

\* C10: analyze_realtime_feed passes over every entity that lacks a trip
\* id or a vehicle id: the vehicle map, the observed-trip set and the
\* per-label trip sets are after such an entity what they were before it,
\* and no error is raised.
C10_SkipsPartial ==
    AfterAnalyze =>
        /\ ~ret.raised
        /\ \A n \in 1..Len(call.feed) :
              LacksIdentification(call.feed[n]) =>
                  AnalyzeLoop(call.feed, n, call.now, gtfs_data)
                      = AnalyzeLoop(call.feed, n - 1, call.now, gtfs_data)

\* The positions of the feed that report a vehicle on a trip.
Reports(feed) == {n \in 1..Len(feed) : feed[n].has_vehicle /\ feed[n].has_trip_id}

\* The label a report is known by: its label, else its vehicle id.
ReportedLabel(e) == IF e.has_label THEN e.label ELSE IF e.has_id THEN e.id ELSE ""

\* The distinct trips the feed reports under a label.
LabelTrips(feed, l) == {feed[n].trip_id : n \in {m \in Reports(feed) : ReportedLabel(feed[m]) = l}}

\* C11: the duplicates map of analyze_realtime_feed has an entry for a
\* label exactly when the feed reports that label on two or more distinct
\* trips, the entry is the set of those trips, and a label reported on one
\* trip only, however often and by however many vehicles, has no entry.
C11_Duplicates ==
    (AfterAnalyze /\ ~ret.raised) =>
        LET dup == ret.value.duplicates
            labels == {ReportedLabel(call.feed[n]) : n \in Reports(call.feed)}
        IN  /\ DOMAIN dup \subseteq labels
            /\ \A l \in labels :
                  /\ l \in DOMAIN dup <=> Cardinality(LabelTrips(call.feed, l)) >= 2
                  /\ l \in DOMAIN dup => dup[l] = LabelTrips(call.feed, l)
            /\ \A l \in DOMAIN dup : Cardinality(dup[l]) >= 2

\* L1 is reported on T1 and T2; L2 is reported twice on T1 alone.
C11_Witness ==
    /\ AfterAnalyze
    /\ ~ret.raised
    /\ DOMAIN ret.value.duplicates = {"L1"}
    /\ ret.value.duplicates["L1"] = {"T1", "T2"}
    /\ Cardinality({n \in Reports(call.feed) : ReportedLabel(call.feed[n]) = "L2"}) = 2

(***************************************************************************)
(* Missing trips, anomaly rules and history: properties.                   *)
(***************************************************************************)
AfterDisplay == call.op = "display_results"

AfterDetect == call.op = "detect_anomalies"

\* C12: the missing-trip set of a cycle is a subset of the scheduled set,
\* is disjoint from the observed set, and holds every scheduled trip that
\* was not observed.
C12_Missing ==
    AfterDisplay =>
        /\ ret.value.missing \subseteq call.scheduled_trips
        /\ ret.value.missing \cap call.observed_trips = {}
        /\ \A t \in call.scheduled_trips : t \notin call.observed_trips => t \in ret.value.missing

\* Scheduled {T1, T2, T3} and observed {T2} give {T1, T3}.
C12_Witness ==
    /\ AfterDisplay
    /\ call.scheduled_trips = {"T1", "T2", "T3"}
    /\ call.observed_trips = {"T2"}
    /\ ret.value.missing = {"T1", "T3"}

Flagged(id, reason) == [id |-> id, reason |-> reason] \in ret.value

\* C13: detect_anomalies reports a vehicle with the large-deviation reason
\* exactly when the absolute value of its delay in seconds is at least
\* sixty times the threshold in minutes.
C13_LargeDeviation ==
    AfterDetect =>
        \A id \in DOMAIN call.vehicles :
            Flagged(id, LargeDeviation)
                <=> Abs(call.vehicles[id].delay_seconds) >= call.threshold_minutes * 60

\* With a threshold of ten minutes, 599 seconds is not reported and 600 is.
C13_Witness ==
    /\ AfterDetect
    /\ call.threshold_minutes = 10
    /\ DOMAIN call.vehicles = {"V1", "V2"}
    /\ call.vehicles["V1"].delay_seconds = 599
    /\ call.vehicles["V2"].delay_seconds = 600
    /\ ~Flagged("V1", LargeDeviation)
    /\ Flagged("V2", LargeDeviation)

RECURSIVE DenProduct(_)
\* The product of the denominators of the samples.
DenProduct(samples) ==
    IF samples = <<>> THEN 1
    ELSE DenProduct(SubSeq(samples, 1, Len(samples) - 1)) * samples[Len(samples)].avg.den

RECURSIVE ScaledSum(_, _)
\* The sum of the samples, times scale (a multiple of every denominator).
ScaledSum(samples, scale) ==
    IF samples = <<>> THEN 0
    ELSE ScaledSum(SubSeq(samples, 1, Len(samples) - 1), scale)
         + samples[Len(samples)].avg.num * (scale \div samples[Len(samples)].avg.den)

\* |delay_seconds / 60| > 2 * |mean of samples|, in integers.
ExceedsTwiceMean(delay_seconds, samples) ==
    Abs(delay_seconds) * DenProduct(samples) * Len(samples)
        > 120 * Abs(ScaledSum(samples, DenProduct(samples)))

\* C14: detect_anomalies reports a vehicle with the abnormal-vs-history
\* reason exactly when its route has a history that is not empty and the
\* absolute delay in minutes is above twice the absolute mean of the
\* route's samples and above three, both strictly; the large-deviation rule
\* is applied independently, so a vehicle that meets both is reported once
\* for each reason.
C14_AbnormalVsHistory ==
    AfterDetect =>
        \A id \in DOMAIN call.vehicles :
            LET v == call.vehicles[id]
                known == v.route_id \in DOMAIN call.history
                abnormal == /\ known
                            /\ call.history[v.route_id] # <<>>
                            /\ ExceedsTwiceMean(v.delay_seconds, call.history[v.route_id])
                            /\ Abs(v.delay_seconds) > 180
                large == Abs(v.delay_seconds) >= call.threshold_minutes * 60
            IN  /\ Flagged(id, AbnormalVsHistory) <=> abnormal
                /\ (abnormal /\ large) =>
                       /\ Flagged(id, AbnormalVsHistory)
                       /\ Flagged(id, LargeDeviation)

\* A vehicle twenty minutes late on a route whose mean is five minutes is
\* reported for both reasons.
C14_Witness ==
    /\ AfterDetect
    /\ "R1" \in DOMAIN call.history
    /\ Len(call.history["R1"]) = 1
    /\ call.history["R1"][1].avg = Fraction(5, 1)
    /\ call.vehicles["V1"].delay_seconds = 1200
    /\ Flagged("V1", AbnormalVsHistory)
    /\ Flagged("V1", LargeDeviation)

\* The ids of the vehicles of the cycle on a route.
OnRoute(route_id) == {id \in DOMAIN call.vehicles : call.vehicles[id].route_id = route_id}

RECURSIVE SecondsOf(_)
\* The sum of the delays in seconds of the vehicles ids.
SecondsOf(ids) ==
    IF ids = {} THEN 0
    ELSE LET id == CHOOSE x \in ids : TRUE
         IN  call.vehicles[id].delay_seconds + SecondsOf(ids \ {id})

\* The samples of a route, none if the route is not in the history.
SamplesOf(hist, route_id) == IF route_id \in DOMAIN hist THEN hist[route_id] ELSE <<>>

\* C15: after a cycle every route with at least one vehicle in the cycle
\* has exactly one new sample, the mean delay in minutes of all its
\* vehicles (on time and early ones included), and a route with no vehicle
\* has none.
C15_SampleEveryRoute ==
    AfterDisplay =>
        \A route_id \in DOMAIN history \cup DOMAIN call.history \cup {"R1", "R2"} :
            LET old == SamplesOf(call.history, route_id)
                new == SamplesOf(history, route_id)
                ids == OnRoute(route_id)
            IN  IF ids = {} THEN new = old
                ELSE /\ Len(new) = Len(old) + 1
                     /\ SubSeq(new, 1, Len(old)) = old
                     /\ new[Len(new)].avg.num * 60 * Cardinality(ids)
                            = SecondsOf(ids) * new[Len(new)].avg.den

\* C16: the anomalies of a cycle are those detect_anomalies finds against
\* the history as it was before the cycle: the mean used by the
\* abnormal-vs-history rule never includes the sample of the current cycle.
C16_HistoryReadBeforeAppend ==
    (AfterDisplay /\ call.source = "betamain") =>
        \A id \in DOMAIN call.vehicles :
            [id |-> id, reason |-> AbnormalVsHistory] \in ret.value.anomalies
                <=> /\ call.vehicles[id].route_id \in DOMAIN call.history
                    /\ call.history[call.vehicles[id].route_id] # <<>>
                    /\ ExceedsTwiceMean(call.vehicles[id].delay_seconds,
                                        call.history[call.vehicles[id].route_id])
                    /\ Abs(call.vehicles[id].delay_seconds) > 180

\* before is a prefix of after.
IsPrefix(before_, after_) ==
    /\ Len(before_) <= Len(after_)
    /\ SubSeq(after_, 1, Len(before_)) = before_

\* C17: the history is append-only: every step leaves each route of the
\* history in it, with its samples before the step as a prefix of its
\* samples after it, and a cycle leaves the samples of a route with no
\* vehicle as they were.
C17_AppendOnly ==
    [][/\ \A route_id \in DOMAIN history :
             /\ route_id \in DOMAIN history'
             /\ IsPrefix(history[route_id], history'[route_id])
       /\ call'.op = "display_results" =>
             \A route_id \in DOMAIN history' :
                 (\A id \in DOMAIN call'.vehicles : call'.vehicles[id].route_id # route_id)
                     => /\ route_id \in DOMAIN history
                        /\ history'[route_id] = history[route_id]]_vars

\* A route with a sample from an earlier cycle has received a second one,
\* and another route without vehicle in the cycle has kept its samples.
C17_Witness ==
    /\ AfterDisplay
    /\ \E route_id \in DOMAIN call.history :
          /\ Len(call.history[route_id]) >= 1
          /\ Len(history[route_id]) = Len(call.history[route_id]) + 1
    /\ \E route_id \in DOMAIN call.history :
          /\ \A id \in DOMAIN call.vehicles : call.vehicles[id].route_id # route_id
          /\ history[route_id] = call.history[route_id]
          /\ history[route_id] # <<>>

(***************************************************************************)
(* Damaged reference data: properties.                                     *)
(***************************************************************************)
\* The text is a time of day written HH:MM:SS.
IsClockText(text) ==
    /\ Len(text) = 8
    /\ \A i \in {1, 2, 4, 5, 7, 8} : IsDigit(text[i])
    /\ text[3] = ":"
    /\ text[6] = ":"

\* The trips with a stop-time entry whose departure or arrival is missing
\* or malformed.
DamagedTrips ==
    {r.trip_id : r \in {x \in gtfs_data.stop_times :
                          ~IsClockText(x.departure_time) \/ ~IsClockText(x.arrival_time)}}

\* C18: a missing or malformed scheduled time never raises:
\* get_scheduled_trips_now returns a set without the trips whose times are
\* missing or malformed, and estimate_delay_from_position returns 0 for an
\* entry whose time is malformed.
C18_DamagedNeverRaises ==
    /\ AfterScheduled =>
          /\ ~ret.raised
          /\ ret.value \cap DamagedTrips = {}
    /\ AfterDelay =>
          /\ ~ret.raised
          /\ (\E r \in Matched : ~IsClockText(r.arrival_time) /\ ~IsClockText(r.departure_time))
                => ret.value = 0

(***************************************************************************)
(* Next stop: properties.                                                  *)
(***************************************************************************)
AfterNextStop == call.op = "get_next_stop"

\* The stop-time entries of the call's trip.
TripEntries == {r \in gtfs_data.stop_times : r.trip_id = call.trip_id}

\* The entries of the trip after the current stop sequence.
Following == {r \in TripEntries : r.stop_sequence > call.current_stop_sequence.value}

\* The names the stops table gives a stop id.
NamesOf(stop_id) == {x.stop_name : x \in {y \in gtfs_data.stops : y.stop_id = stop_id}}

\* C19: the next stop get_next_stop reports is the stop of the entry with
\* the smallest stop sequence strictly greater than the current one, also
\* when the trip's sequence numbers are not consecutive.
C19_SmallestFollowing ==
    (AfterNextStop /\ call.current_stop_sequence.has /\ Following # {}) =>
        \E r \in Following :
            /\ \A x \in Following : r.stop_sequence <= x.stop_sequence
            /\ NamesOf(r.stop_id) # {} => ret.value \in NamesOf(r.stop_id)

\* The entries of the trip at the sequence after the current one.
NextEntries == {r \in TripEntries : r.stop_sequence = call.current_stop_sequence.value + 1}

\* The current sequence is the greatest of the trip.
AtTerminus ==
    /\ \A r \in TripEntries : r.stop_sequence <= call.current_stop_sequence.value
    /\ \E x \in TripEntries : x.stop_sequence = call.current_stop_sequence.value

\* The four outcomes as stated: the name whenever the entry current+1 exists.
C20_AsStated ==
    AfterNextStop =>
        /\ ~ret.raised
        /\ IF ~call.current_stop_sequence.has \/ TripEntries = {}
           THEN ret.value = "Inconnu"
           ELSE IF NextEntries # {}
           THEN \E r \in NextEntries : ret.value \in NamesOf(r.stop_id)
           ELSE IF AtTerminus
           THEN ret.value = "Terminus atteint"
           ELSE ret.value = "Prochain arrêt inconnu"

\* C20: get_next_stop never raises and returns the unknown sentinel when
\* the current sequence is absent or the trip has no entries; the stop name
\* of the entry current+1 when that entry exists and its stop is in the
\* stops table; the terminus sentinel when no entry current+1 exists and
\* current is the trip's maximum; and the next-stop-unknown sentinel in
\* every other case, an entry current+1 whose stop is not in the stops
\* table included.
C20_FourOutcomes ==
    AfterNextStop =>
        /\ ~ret.raised
        /\ IF ~call.current_stop_sequence.has \/ TripEntries = {}
           THEN ret.value = "Inconnu"
           ELSE IF \E r \in NextEntries : NamesOf(r.stop_id) # {}
           THEN \E r \in NextEntries : ret.value \in NamesOf(r.stop_id)
           ELSE IF NextEntries = {} /\ AtTerminus
           THEN ret.value = "Terminus atteint"
           ELSE ret.value = "Prochain arrêt inconnu"

\* The entry after the current one exists and its stop is not in the stops
\* table.
C20_Witness ==
    /\ AfterNextStop
    /\ call.current_stop_sequence.has
    /\ NextEntries # {}
    /\ \A r \in NextEntries : NamesOf(r.stop_id) = {}
    /\ ret.value = "Prochain arrêt inconnu"

\* The positions of the feed that report a vehicle on a trip and carry a
\* vehicle id.
ValidReports(feed) == {n \in Reports(feed) : feed[n].has_id}

\* The last position of the feed that reports the vehicle id.
LastReport(feed, id) ==
    CHOOSE n \in ValidReports(feed) :
        /\ feed[n].id = id
        /\ \A m \in ValidReports(feed) : feed[m].id = id => m <= n

\* C21: when a vehicle id appears in several valid entities of a feed,
\* analyze_realtime_feed does not fail, the vehicle map has one record for
\* the id, built from the last of these entities, and the map has one
\* entry for each vehicle id of the valid entities and no other.
C21_LastWriteWins ==
    AfterAnalyze =>
        /\ ~ret.raised
        /\ DOMAIN ret.value.vehicles = {call.feed[n].id : n \in ValidReports(call.feed)}
        /\ \A id \in {call.feed[n].id : n \in ValidReports(call.feed)} :
              ret.value.vehicles[id]
                  = VehicleRecord(call.feed[LastReport(call.feed, id)], call.now, gtfs_data)

\* C22: analyze_realtime_feed run a second time on the same feed, now and
\* schedule returns what the first run returned, and a run returns nothing
\* that an earlier run left behind: every vehicle, observed trip and
\* duplicate label of its result is reported by its own feed.
C22_Idempotent ==
    /\ [][(/\ call.op = "analyze_realtime_feed"
           /\ call'.op = "analyze_realtime_feed"
           /\ call'.feed = call.feed
           /\ call'.now = call.now) => ret' = ret]_vars
    /\ []((AfterAnalyze /\ ~ret.raised) =>
            /\ ret.value.observed_trips
                   \subseteq {call.feed[n].trip_id : n \in Reports(call.feed)}
            /\ DOMAIN ret.value.vehicles
                   \subseteq {VehicleIdOf(call.feed[n]) : n \in Reports(call.feed)}
            /\ DOMAIN ret.value.duplicates
                   \subseteq {ReportedLabel(call.feed[n]) : n \in Reports(call.feed)})

\* A second run on a feed with two vehicles and a duplicate label.
C22_Witness ==
    /\ AfterAnalyze
    /\ call.run = 2
    /\ ~ret.raised
    /\ Cardinality(DOMAIN ret.value.vehicles) >= 2
    /\ DOMAIN ret.value.duplicates # {}

\* The trip ids of the records of the returned vehicle map.
RecordTrips == {ret.value.vehicles[id].trip_id : id \in DOMAIN ret.value.vehicles}

\* C26: after analyze_realtime_feed the observed-trip set is the set of
\* trip ids of the records of the vehicle map, and every trip id listed in
\* the duplicates map is the trip id of a record of the vehicle map.
C26_ObservedMatchesRecords ==
    (AfterAnalyze /\ ~ret.raised) =>
        /\ ret.value.observed_trips = RecordTrips
        /\ \A label \in DOMAIN ret.value.duplicates :
              ret.value.duplicates[label] \subseteq RecordTrips

\* The feed with the entities at positions i and j exchanged.
Swapped(feed, i, j) ==
    [n \in 1..Len(feed) |-> IF n = i THEN feed[j] ELSE IF n = j THEN feed[i] ELSE feed[n]]

\* The reports of the feed carry pairwise distinct vehicle ids.
DistinctIds(feed) ==
    \A m, n \in Reports(feed) : VehicleIdOf(feed[m]) = VehicleIdOf(feed[n]) => m = n

AfterCycle == call.op = "polling_cycle"

\* C28: a cycle of the polling loop that ends in an exception leaves the
\* history as it was before the cycle.
C28_FailedCycleKeepsHistory ==
    (AfterCycle /\ ret.raised) => history = call.history

(***************************************************************************)
(* Predictions: properties.                                                *)
(***************************************************************************)
AfterPredict == call.op = "predict_delays"

\* C23: predict_delays returns an entry for exactly the routes whose
\* sample sequence is not empty, each entry is the sum of all samples of
\* the route divided by their number, and the history is as it was.
C23_Predictions ==
    AfterPredict =>
        /\ ~ret.raised
        /\ DOMAIN ret.value = {r \in DOMAIN call.history : call.history[r] # <<>>}
        /\ \A r \in DOMAIN ret.value :
              ret.value[r].num * DenProduct(call.history[r]) * Len(call.history[r])
                  = ScaledSum(call.history[r], DenProduct(call.history[r])) * ret.value[r].den
        /\ history = call.history

\* A history with three samples on one route, an empty sequence on a
\* second and one sample on a third.
C23_Witness ==
    /\ AfterPredict
    /\ DOMAIN call.history = {"R1", "R2", "R3"}
    /\ DOMAIN ret.value = {"R1", "R3"}
    /\ ret.value["R1"] = Fraction(35, 6)

(***************************************************************************)
(* Hours of any width: properties.                                         *)
(***************************************************************************)
\* The position of the first colon of a text.
FirstColon(text) == CHOOSE i \in 1..Len(text) : text[i] = ":" /\ \A j \in 1..(i - 1) : text[j] # ":"

\* The offset in milliseconds that a text H:MM:SS stands for, the hour of
\* one digit or more.
PlainOffsetMs(text) ==
    DecimalValue(SubSeq(text, 1, FirstColon(text) - 1)) * HourMs
        + TwoDigits(text, FirstColon(text) + 1) * MinuteMs
        + TwoDigits(text, FirstColon(text) + 4) * SecondMs

\* The numerically earliest departure and latest arrival of a trip.
EarliestDeparture(id) ==
    CHOOSE x \in {PlainOffsetMs(r.departure_time) : r \in StopTimesOf(id)} :
        \A r \in StopTimesOf(id) : x <= PlainOffsetMs(r.departure_time)

LatestArrival(id) ==
    CHOOSE x \in {PlainOffsetMs(r.arrival_time) : r \in StopTimesOf(id)} :
        \A r \in StopTimesOf(id) : x >= PlainOffsetMs(r.arrival_time)

\* C24: get_scheduled_trips_now takes as a trip's start its numerically
\* earliest departure and as its end its numerically latest arrival, also
\* when hours are written without leading zero or are 24 and above: a trip
\* of an active service whose start hour is 5 or later is returned exactly
\* when earliest departure <= now <= latest arrival + 15 minutes.
C24_NumericBounds ==
    AfterScheduled =>
        /\ ~ret.raised
        /\ \A id \in TripIds :
              (/\ OnActiveService(id, call.now)
               /\ StopTimesOf(id) # {}
               /\ (EarliestDeparture(id) \div HourMs) % 24 >= 5) =>
                  (id \in ret.value <=>
                      /\ (call.now \div DayMs) * DayMs + EarliestDeparture(id) <= call.now
                      /\ call.now <= (call.now \div DayMs) * DayMs + LatestArrival(id)
                                         + 15 * MinuteMs)

\* C25: a trip with window 24:10:00-24:40:00 on a service active on a day
\* is returned by get_scheduled_trips_now at 00:20 of the following day,
\* whether or not the service is active on that following day.
C25_AfterMidnight ==
    \A id \in TripIds :
        (/\ AfterScheduled
         /\ StopTimesOf(id) # {}
         /\ FirstDeparture(id) = 24 * HourMs + 10 * MinuteMs
         /\ LastArrival(id) = 24 * HourMs + 40 * MinuteMs
         /\ call.now % DayMs = 20 * MinuteMs
         /\ call.now \div DayMs >= 1
         /\ OnActiveService(id, call.now - DayMs)) =>
            (~ret.raised /\ id \in ret.value)

====
